---- MODULE Spec2Model ----
(***************************************************************************)
(* SnowAlert alert handler (src/src/runners/alert_handler.py): one run     *)
(* fetches the pending rows of results.alerts, hands each to the handlers  *)
(* its HANDLERS field names, and records a handler failure as a new alert  *)
(* row before deleting the failed one.                                     *)
(*                                                                         *)
(* A missing JSON key, a SQL NULL and Python's None are the empty option   *)
(* None == <<>>; a present value v is Some(v) == <<v>>.                    *)
(***************************************************************************)
EXTENDS Integers, Sequences, FiniteSets, TLC

\* ------------------------------------------------------------------ bounds
MaxRows == 2        \* rows of a small initial table
MaxExtra == 1       \* a large initial table holds LIMIT + 0..MaxExtra rows
MaxRuns == 2        \* scheduled runs of the handler
MaxFaults == 3      \* errors the handler backend, the store and the metrics
                    \* sink produce in one behaviour

\* ------------------------------------------------------------ option values
None == <<>>
Some(v) == <<v>>

\* dict.get(key, default)
Get(opt, default) == IF opt = None THEN default ELSE opt[1]

\* ------------------------------------------------------------------- data
\* LIMIT 100 of GET_ALERTS_QUERY
LIMIT == 100

\* the handler names a HANDLERS list is drawn from
HandlerLists ==
    { None, Some(<<>>), Some(<<"jira">>), Some(<<"email">>),
      Some(<<"jira", "jira">>), Some(<<"email", "jira">>) }

\* the error value create_jira.handle_alert returns when it fails
Errors == { "auth expired" }

\* what the process environment holds for CLOUDWATCH_METRICS
EnvValues == { None, Some("true"), Some("false") }

\* the formatted DESCRIPTION of a failure record: the template and its two
\* arguments, the failed alert's id and the stringified error
Description(id, e) ==
    [ template |-> "The alert with ID '%s' failed to create with error: %s",
      id |-> id, error |-> e ]

\* a row of results.alerts (CREATE TABLE results.alerts): the ALERT variant and
\* the columns the handler reads; correlation_id, suppression_rule and counter
\* are never read or written by the handler and are left out, as are the
\* constant tags QUERY_ID, QUERY_NAME, ENVIRONMENT, SOURCES, ACTOR, ACTION,
\* DETECTOR and the EVENT_DATA echo of a failure record
Row(body, atime, etime, ticket, suppressed) ==
    [ ALERT |-> body, alert_time |-> atime, event_time |-> etime,
      ticket |-> ticket, suppressed |-> suppressed ]

Body(id, handlers, object, title, description, severity, etime, atime) ==
    [ ALERT_ID |-> id, HANDLERS |-> handlers, OBJECT |-> object,
      TITLE |-> title, DESCRIPTION |-> description, SEVERITY |-> severity,
      EVENT_TIME |-> etime, ALERT_TIME |-> atime ]

\* a row written by the detection process (the sample alert of the installer)
Detected(id, handlers, etime, ticket, suppressed) ==
    Row(Body(id, handlers, None, Some("Detection"), None, Some("Low"),
             Some(etime), Some(etime)),
        Some(etime), Some(etime), ticket, suppressed)

\* ------------------------------------------------------------------ fetch
\* mutant of Pending: a NULL suppressed taken for not suppressed
Pending_NullIsFalse(t) == { r \in t : r.ticket = None /\ r.suppressed # Some(TRUE) }

\* WHERE ticket IS NULL AND suppressed=FALSE: a NULL suppressed compares to
\* NULL, which is not true
Pending(t) == { r \in t : r.ticket = None /\ r.suppressed = Some(FALSE) }

\* a may precede b under ORDER BY event_time ASC (NULLs sort last)
Before(a, b) ==
    \/ b.event_time = None
    \/ a.event_time # None /\ a.event_time[1] <= b.event_time[1]

\* every order of a set of rows that tie
RECURSIVE Perms(_)
Perms(S) ==
    IF S = {} THEN { <<>> }
    ELSE UNION { { <<x>> \o t : t \in Perms(S \ {x}) } : x \in S }

\* ORDER BY event_time ASC: the row sequences the store may return for the row
\* set S. Rows of equal event_time come in any order. S is split at the middle
\* of its event_time range and the two sorted halves are joined.
RECURSIVE OrderBy(_)
OrderBy(S) ==
    IF \A a, b \in S : Before(a, b) THEN Perms(S)
    ELSE LET ks == { x.event_time[1] : x \in { y \in S : y.event_time # None } }
             lo == CHOOSE k \in ks : \A m \in ks : k <= m
             hi == CHOOSE k \in ks : \A m \in ks : m <= k
             older == { x \in S : x.event_time # None /\ x.event_time[1] <= (lo + hi) \div 2 }
         IN  { s \o t : s \in OrderBy(older), t \in OrderBy(S \ older) }

\* mutant of Limit: the k rows at the end of the order
Limit_Newest(s, k) == SubSeq(s, IF Len(s) < k THEN 1 ELSE Len(s) - k + 1, Len(s))

\* LIMIT k
Limit(s, k) == SubSeq(s, 1, IF Len(s) < k THEN Len(s) ELSE k)

GET_ALERTS_QUERY(t) == { Limit(s, LIMIT) : s \in OrderBy(Pending(t)) }

\* ------------------------------------------------------------- dispatch
\* mutant of Registered: every handler name is handed to create_jira
Registered_Any(handler) == TRUE

\* if handler == 'jira': the one handler name the loop acts on
Registered(handler) == handler = "jira"

\* mutant of Handlers: an empty HANDLERS list gets the default too
Handlers_OrDefault(alert) ==
    IF alert.ALERT.HANDLERS \in { None, Some(<<>>) } THEN <<"jira">>
    ELSE alert.ALERT.HANDLERS[1]

\* handlers = alert_body.get('HANDLERS', ['jira'])
Handlers(alert) == Get(alert.ALERT.HANDLERS, <<"jira">>)

\* mutant of Advance: the loop goes back to the handler it has just dealt with
RECURSIVE Advance_Again(_, _, _)
Advance_Again(b, i, j) ==
    IF i > Len(b) THEN <<i, 1>>
    ELSE IF j > 1 THEN <<i, j - 1>>
    ELSE IF Len(Handlers(b[i])) >= 1 THEN <<i, 1>>
    ELSE Advance_Again(b, i + 1, 1)

\* mutant of Advance: the inner loop is left after one handler
RECURSIVE Advance_Break(_, _, _)
Advance_Break(b, i, j) ==
    IF i > Len(b) THEN <<i, 1>>
    ELSE IF j = 1 /\ Len(Handlers(b[i])) >= 1 THEN <<i, j>>
    ELSE Advance_Break(b, i + 1, 1)

\* the loop cursor after handler j of alert i: the next handler of the same
\* alert, else the first handler of the next alert that has one; i past the
\* batch when the loops are over
RECURSIVE Advance(_, _, _)
Advance(b, i, j) ==
    IF i > Len(b) THEN <<i, 1>>
    ELSE IF j <= Len(Handlers(b[i])) THEN <<i, j>>
    ELSE Advance(b, i + 1, 1)

\* ------------------------------------------------------------------ state
VARIABLES
    table,               \* results.alerts: the set of its rows
    pc,                  \* where the handler process is
    run,                 \* how many runs have been started
    CLOUDWATCH_METRICS,  \* config.CLOUDWATCH_METRICS of the running process
    JIRA_USER,           \* os.environ.get('JIRA_USER') of the running process
    batch,               \* alerts = list(get_new_alerts(ctx))
    i, j,                \* loop cursor: alert batch[i], its j-th handler
    r,                   \* what handle_alert returned
    raised,              \* the exception that left main(), if one did
    nextId,              \* the next value uuid.uuid4() yields
    clock,               \* datetime.utcnow()
    trace,               \* the calls the current run has made, in order
    inserted,            \* the rows the current run's INSERT statements have added
    removed,             \* ALERT_IDs of the rows DELETE statements have removed
    recorded,            \* ALERT_IDs a stored failure record was written for, in any run
    faults,              \* errors the handler's surroundings have produced
    other,               \* the local state of a second handler process, when
                         \* two run at once
    left                 \* the rows a terminated run had fetched and not yet
                         \* called a handler for, until the next fetch

vars == << table, pc, run, CLOUDWATCH_METRICS, JIRA_USER, batch, i, j, r, raised,
           nextId, clock, trace, inserted, removed, recorded, faults, other, left >>

\* what a handler process keeps to itself: its environment, its place in
\* main() and main()'s local variables, with the calls it has made
Locals(p, cw, ju, b, ai, hj, res, exc, tr, ins) ==
    [ pc |-> p, CLOUDWATCH_METRICS |-> cw, JIRA_USER |-> ju, batch |-> b,
      i |-> ai, j |-> hj, r |-> res, raised |-> exc, trace |-> tr, inserted |-> ins ]

\* a process that has not been started
Idle == Locals("idle", None, None, <<>>, 1, 1, None, None, <<>>, {})

\* one observable call of a run: a handler call, a store statement, a metric,
\* an error log; i, j locate the alert and handler it was made for
Ev(op, ai, hj, res, ok) == [ op |-> op, i |-> ai, j |-> hj, res |-> res, ok |-> ok ]

\* mutant of Truthy: any value that is set counts, the empty string too
Truthy_IfSet(v) == v # None

\* Python truthiness of environ.get(name, False): unset and '' are false
Truthy(v) == v # None /\ v[1] # ""

\* -------------------------------------------------------------- initial
\* the rows the detection process and the ticketing integration leave behind
\* in a small table. Row k is detected at time 1 + k unless it is old, and old
\* rows share event_time 1 (the store may return them in either order). There
\* are recent pending rows naming any handler list, old pending rows without
\* HANDLERS, with and without an ALERT_ID, and an old row for each way of not
\* being pending (ticketed, suppressed, suppressed still NULL)
Templates ==
    [ id : {TRUE}, handlers : HandlerLists, old : {FALSE}, kind : {"pending"} ]
    \cup [ id : BOOLEAN, handlers : {None}, old : {TRUE}, kind : {"pending"} ]
    \cup [ id : {TRUE}, handlers : {None}, old : {TRUE},
           kind : {"ticketed", "suppressed", "unset"} ]

MakeRow(k, t) ==
    Detected(IF t.id THEN Some(k) ELSE None, t.handlers,
             IF t.old THEN 1 ELSE 1 + k,
             IF t.kind = "ticketed" THEN Some("JIRA-1") ELSE None,
             CASE t.kind = "suppressed" -> Some(TRUE)
               [] t.kind = "unset" -> None
               [] OTHER -> Some(FALSE))

\* ALERT_IDs are opaque: of the tables that differ only by which id names
\* which row, the one whose rows come in template order stands for all
Rank(t) ==
    LET hs == << None, Some(<<>>), Some(<<"jira">>), Some(<<"email">>),
                 Some(<<"jira", "jira">>), Some(<<"email", "jira">>) >>
        h  == CHOOSE n \in 1..Len(hs) : hs[n] = t.handlers
    IN  CASE t.kind = "ticketed" -> 1
          [] t.kind = "suppressed" -> 2
          [] t.kind = "unset" -> 3
          [] OTHER -> 4 + (IF t.id THEN 2 * h + (IF t.old THEN 0 ELSE 1) ELSE 0)

SmallTables ==
    UNION { { { MakeRow(k, f[k]) : k \in 1..n }
                : f \in { g \in [1..n -> Templates] :
                            \A k \in 1..(n - 1) : Rank(g[k]) <= Rank(g[k + 1]) } }
            : n \in 0..MaxRows }

\* sustained volume: LIMIT + e pending rows, row k detected at time 1 + k, all
\* naming a handler that is not registered except row p, which has no
\* HANDLERS; and three old rows that are not pending
LargeTable(e, p) ==
    { Detected(Some(k), IF k = p THEN None ELSE Some(<<"email">>), 1 + k, None, Some(FALSE))
        : k \in 1..(LIMIT + e) }
    \cup { Detected(Some(LIMIT + e + 1), None, 1, Some("JIRA-1"), Some(FALSE)),
           Detected(Some(LIMIT + e + 2), None, 1, None, Some(TRUE)),
           Detected(Some(LIMIT + e + 3), None, 1, None, None) }

\* the row without HANDLERS is the oldest pending row, or the newest of the
\* largest table
LargeTables ==
    { LargeTable(e, 1) : e \in 0..MaxExtra } \cup { LargeTable(MaxExtra, LIMIT + MaxExtra) }

\* the first uuid and the first clock reading are beyond every initial row's
Now0 == LIMIT + MaxExtra + 4

Init ==
    /\ table \in SmallTables \cup LargeTables
    /\ pc = "idle"
    /\ run = 0
    /\ CLOUDWATCH_METRICS = None
    /\ JIRA_USER = None
    /\ batch = <<>>
    /\ i = 1
    /\ j = 1
    /\ r = None
    /\ raised = None
    /\ nextId = Now0
    /\ clock = Now0
    /\ trace = <<>>
    /\ inserted = {}
    /\ removed = {}
    /\ recorded = {}
    /\ faults = 0
    /\ other = Idle
    /\ left = {}

\* ---------------------------------------------------------------- actions
\* an outcome is an error only while the behaviour has errors left
Fault(isError) ==
    /\ isError => faults < MaxFaults
    /\ faults' = IF isError THEN faults + 1 ELSE faults

\* the loops move on from cursor (ai, hj)
Continue(ai, hj) ==
    LET c == Advance(batch, ai, hj)
    IN  /\ i' = c[1]
        /\ j' = c[2]
        /\ pc' = IF c[1] > Len(batch) THEN "metrics" ELSE "loop"

\* mutant of FailureRecord: OBJECT names the record itself
FailureRecord_OwnId(a, e) ==
    Row(Body(Some(nextId), None, Some(nextId), Some("Alert Handler Failure"),
             Some(Description(a.ALERT_ID[1], e)), Some("High"),
             Some(clock), Some(clock)),
        Some(clock), None, None, None)

\* mutant of FailureRecord: the INSERT also sets suppressed to FALSE
FailureRecord_Visible(a, e) ==
    Row(Body(Some(nextId), None, a.ALERT_ID, Some("Alert Handler Failure"),
             Some(Description(a.ALERT_ID[1], e)), Some("High"),
             Some(clock), Some(clock)),
        Some(clock), None, None, Some(FALSE))

\* the failure record log_failure builds for alert body a and error e
FailureRecord(a, e) ==
    Row(Body(Some(nextId), None, a.ALERT_ID, Some("Alert Handler Failure"),
             Some(Description(a.ALERT_ID[1], e)), Some("High"),
             Some(clock), Some(clock)),
        Some(clock), None, None, None)

\* mutant of DeleteById: the DELETE has no WHERE clause
DeleteById_All(t, id) == {}

\* mutant of DeleteById: the DELETE also matches rows whose OBJECT is the id
DeleteById_OrObject(t, id) ==
    { x \in t : x.ALERT.ALERT_ID # Some(id) /\ x.ALERT.OBJECT # Some(id) }

\* DELETE FROM results.alerts where ALERT:ALERT_ID = '<id>'
DeleteById(t, id) == { x \in t : x.ALERT.ALERT_ID # Some(id) }

\* a start of the process: the imports read the environment
\* (config.CLOUDWATCH_METRICS), and main() runs only if JIRA_USER is set
Start ==
    /\ pc \in { "idle", "done", "exit", "crashed", "killed" }
    /\ trace' = <<>>
    /\ inserted' = {}
    /\ batch' = <<>>
    /\ i' = 1
    /\ j' = 1
    /\ r' = None
    /\ raised' = None
    /\ \E env \in EnvValues : CLOUDWATCH_METRICS' = env
    /\ \E user \in { None, Some(""), Some("jira-bot") } :
          /\ JIRA_USER' = user
          /\ pc' = IF Truthy(user) THEN "main" ELSE "exit"
    /\ UNCHANGED << table, nextId, clock, removed, recorded, faults, other, left >>

\* a scheduled start of the process, one of MaxRuns
Entry ==
    /\ run < MaxRuns
    /\ run' = run + 1
    /\ Start

\* ctx = db.connect(); alerts = list(get_new_alerts(ctx)): the store answers
\* the query or raises, and nothing in main() catches that
get_new_alerts ==
    /\ pc = "main"
    /\ \/ /\ \E s \in GET_ALERTS_QUERY(table) : batch' = s
          /\ pc' = "found"
          /\ left' = {}
          /\ Fault(FALSE)
          /\ UNCHANGED raised
       \/ /\ raised' = Some("store error")
          /\ pc' = "crashed"
          /\ Fault(TRUE)
          /\ UNCHANGED << batch, left >>
    /\ UNCHANGED << table, run, CLOUDWATCH_METRICS, JIRA_USER, other, i, j, r, nextId, clock, trace, inserted, removed, recorded >>

\* log.info(f'Found {len(alerts)} new alerts to handle.'), then the loops start
log_info ==
    /\ pc = "found"
    /\ Continue(1, 1)
    /\ UNCHANGED << table, run, CLOUDWATCH_METRICS, JIRA_USER, other, left, batch, r, raised, nextId, clock, trace, inserted, removed, recorded, faults >>

\* mutant of handle_alert: a call that returned an error is made again
handle_alert_Retry ==
    /\ pc = "loop"
    /\ Registered(Handlers(batch[i])[j])
    /\ \E res \in { None } \cup { Some(e) : e \in Errors } :
          /\ trace' = Append(trace, Ev("handle_alert", i, j, res, res = None))
          /\ r' = None
          /\ Fault(res # None)
          /\ IF res = None
               THEN Continue(i, j + 1)
               ELSE UNCHANGED << pc, i, j >>
    /\ UNCHANGED << table, run, CLOUDWATCH_METRICS, JIRA_USER, other, left, batch, raised, nextId, clock, inserted, removed, recorded >>

\* mutant of handle_alert: a call that succeeds writes the ticket into the row
handle_alert_SetsTicket ==
    /\ pc = "loop"
    /\ Registered(Handlers(batch[i])[j])
    /\ \E res \in { None } \cup { Some(e) : e \in Errors } :
          /\ trace' = Append(trace, Ev("handle_alert", i, j, res, res = None))
          /\ r' = res
          /\ Fault(res # None)
          /\ table' = IF res = None
                        THEN { IF x = batch[i] THEN [ x EXCEPT !.ticket = Some("JIRA-1") ] ELSE x
                                 : x \in table }
                        ELSE table
          /\ IF res = None
               THEN Continue(i, j + 1)
               ELSE pc' = "log_failure" /\ UNCHANGED << i, j >>
    /\ UNCHANGED << run, CLOUDWATCH_METRICS, JIRA_USER, other, left, batch, raised, nextId, clock, inserted, removed, recorded >>

\* handler == 'jira': r = create_jira.handle_alert(handler, alert), which
\* returns None or an error value
handle_alert ==
    /\ pc = "loop"
    /\ Registered(Handlers(batch[i])[j])
    /\ \E res \in { None } \cup { Some(e) : e \in Errors } :
          /\ trace' = Append(trace, Ev("handle_alert", i, j, res, res = None))
          /\ r' = res
          /\ Fault(res # None)
          /\ IF res = None
               THEN Continue(i, j + 1)
               ELSE pc' = "log_failure" /\ UNCHANGED << i, j >>
    /\ UNCHANGED << table, run, CLOUDWATCH_METRICS, JIRA_USER, other, left, batch, raised, nextId, clock, inserted, removed, recorded >>

\* any other handler name: the if is false and the loop moves on
skip_handler ==
    /\ pc = "loop"
    /\ ~Registered(Handlers(batch[i])[j])
    /\ Continue(i, j + 1)
    /\ UNCHANGED << table, run, CLOUDWATCH_METRICS, JIRA_USER, other, left, batch, r, raised, nextId, clock, trace, inserted, removed, recorded, faults >>

\* log_alerts(ctx, alerts) for the one record of log_failure: the INSERT, whose
\* exception log_alerts itself logs and swallows
log_alerts(rec) ==
    \E ok \in BOOLEAN :
        /\ Fault(~ok)
        /\ table' = IF ok THEN table \cup { rec } ELSE table
        /\ inserted' = IF ok THEN inserted \cup { rec } ELSE inserted
        /\ recorded' = IF ok THEN recorded \cup { rec.ALERT.OBJECT[1] } ELSE recorded
        /\ trace' = trace \o << Ev("log_failure", i, j, r, TRUE), Ev("insert", i, j, r, ok) >>
                          \o ( IF ok THEN <<>>
                               ELSE << Ev("log.error", i, j, Some("Failed to log alert"), TRUE) >> )

\* log_failure(ctx, alert_body, r) up to the INSERT: alert['ALERT_ID'] is read
\* while the record is built, before the try, so a body without the key raises
\* KeyError out of log_failure and out of main()
log_failure ==
    /\ pc = "log_failure"
    /\ LET alert == batch[i].ALERT
       IN  IF alert.ALERT_ID = None
             THEN /\ raised' = Some("KeyError")
                  /\ pc' = "crashed"
                  /\ trace' = Append(trace, Ev("log_failure", i, j, r, FALSE))
                  /\ UNCHANGED << table, inserted, recorded, nextId, clock, faults >>
             ELSE /\ log_alerts(FailureRecord(alert, r[1]))
                  /\ pc' = "delete"
                  /\ nextId' = nextId + 1
                  /\ clock' = clock + 1
                  /\ UNCHANGED raised
    /\ UNCHANGED << run, CLOUDWATCH_METRICS, JIRA_USER, other, left, batch, i, j, r, removed >>

\* mutant of delete_alert: the row goes even when the DELETE raised
delete_alert_Anyway ==
    /\ pc = "delete"
    /\ LET id == batch[i].ALERT.ALERT_ID[1]
       IN  \E ok \in BOOLEAN :
             /\ Fault(~ok)
             /\ table' = DeleteById(table, id)
             /\ removed' = IF DeleteById(table, id) # table
                             THEN removed \cup { id } ELSE removed
             /\ trace' = Append(trace, Ev("delete", i, j, r, ok))
                           \o ( IF ok THEN <<>>
                                ELSE << Ev("log.error", i, j,
                                           Some("Failed to log alert creation failure"), TRUE) >> )
    /\ r' = None
    /\ Continue(i, j + 1)
    /\ UNCHANGED << run, CLOUDWATCH_METRICS, JIRA_USER, other, left, batch, raised, nextId, clock, inserted, recorded >>

\* the DELETE of log_failure and its except clause
delete_alert ==
    /\ pc = "delete"
    /\ LET id == batch[i].ALERT.ALERT_ID[1]
       IN  \E ok \in BOOLEAN :
             /\ Fault(~ok)
             /\ table' = IF ok THEN DeleteById(table, id) ELSE table
             /\ removed' = IF ok /\ DeleteById(table, id) # table
                             THEN removed \cup { id } ELSE removed
             /\ trace' = Append(trace, Ev("delete", i, j, r, ok))
                           \o ( IF ok THEN <<>>
                                ELSE << Ev("log.error", i, j,
                                           Some("Failed to log alert creation failure"), TRUE) >> )
    /\ r' = None
    /\ Continue(i, j + 1)
    /\ UNCHANGED << run, CLOUDWATCH_METRICS, JIRA_USER, other, left, batch, raised, nextId, clock, inserted, recorded >>

\* mutant of log_metric: the metric is emitted whatever the flag
log_metric_Always ==
    /\ pc = "metrics"
    /\ \E ok \in BOOLEAN :
          /\ Fault(~ok)
          /\ trace' = Append(trace, Ev("metric", 0, 0, None, ok))
                       \o ( IF ok THEN <<>>
                            ELSE << Ev("log.error", 0, 0,
                                       Some("Cloudwatch metric logging failed"), TRUE) >> )
    /\ pc' = "done"
    /\ UNCHANGED << table, run, CLOUDWATCH_METRICS, JIRA_USER, other, left, batch, i, j, r, raised, nextId, clock, inserted, removed, recorded >>

\* mutant of log_metric: no try around the emission, so its error leaves main()
log_metric_Raises ==
    /\ pc = "metrics"
    /\ IF Truthy(CLOUDWATCH_METRICS)
         THEN \E ok \in BOOLEAN :
                /\ Fault(~ok)
                /\ trace' = Append(trace, Ev("metric", 0, 0, None, ok))
                /\ pc' = IF ok THEN "done" ELSE "crashed"
                /\ raised' = IF ok THEN raised ELSE Some("metric error")
         ELSE pc' = "done" /\ UNCHANGED << trace, faults, raised >>
    /\ UNCHANGED << table, run, CLOUDWATCH_METRICS, JIRA_USER, other, left, batch, i, j, r, nextId, clock, inserted, removed, recorded >>

\* try: if CLOUDWATCH_METRICS: log.metric(...) except: log.error(...)
log_metric ==
    /\ pc = "metrics"
    /\ IF Truthy(CLOUDWATCH_METRICS)
         THEN \E ok \in BOOLEAN :
                /\ Fault(~ok)
                /\ trace' = Append(trace, Ev("metric", 0, 0, None, ok))
                             \o ( IF ok THEN <<>>
                                  ELSE << Ev("log.error", 0, 0,
                                             Some("Cloudwatch metric logging failed"), TRUE) >> )
         ELSE UNCHANGED << trace, faults >>
    /\ pc' = "done"
    /\ UNCHANGED << table, run, CLOUDWATCH_METRICS, JIRA_USER, other, left, batch, i, j, r, raised, nextId, clock, inserted, removed, recorded >>

Next ==
    \/ Entry
    \/ get_new_alerts
    \/ log_info
    \/ handle_alert
    \/ skip_handler
    \/ log_failure
    \/ delete_alert
    \/ log_metric

Spec == Init /\ [][Next]_vars

\* the scheduler goes on starting the process after the MaxRuns runs that are
\* counted
Rerun ==
    /\ run = MaxRuns
    /\ run' = run
    /\ Start

\* sustained volume: the table starts with LIMIT pending alerts or more
InitVolume ==
    /\ Init
    /\ table \in LargeTables

NextVolume ==
    \/ Entry
    \/ Rerun
    \/ get_new_alerts
    \/ log_info
    \/ handle_alert
    \/ skip_handler
    \/ log_failure
    \/ delete_alert
    \/ log_metric

\* the scheduler starts the process again and again, and a started process
\* that has its batch takes its next step; the fetch waits for the store,
\* which may never answer
VolumeSpec ==
    /\ InitVolume
    /\ [][NextVolume]_vars
    /\ WF_vars(Entry \/ Rerun)
    /\ WF_vars(log_info \/ handle_alert \/ skip_handler
                  \/ log_failure \/ delete_alert \/ log_metric)

\* two processes at once: the operating system takes the running process off
\* the processor and puts the other one on; the table and the clock are shared
Switch ==
    /\ other' = Locals(pc, CLOUDWATCH_METRICS, JIRA_USER, batch, i, j, r, raised, trace, inserted)
    /\ pc' = other.pc
    /\ CLOUDWATCH_METRICS' = other.CLOUDWATCH_METRICS
    /\ JIRA_USER' = other.JIRA_USER
    /\ batch' = other.batch
    /\ i' = other.i
    /\ j' = other.j
    /\ r' = other.r
    /\ raised' = other.raised
    /\ trace' = other.trace
    /\ inserted' = other.inserted
    /\ UNCHANGED << table, run, nextId, clock, removed, recorded, faults, left >>

\* the tables the two processes start on: at most one row
ConcTables == { t \in SmallTables : Cardinality(t) <= 1 }

InitConc ==
    /\ Init
    /\ table \in ConcTables

NextConc ==
    \/ Entry
    \/ Switch
    \/ get_new_alerts
    \/ log_info
    \/ handle_alert
    \/ skip_handler
    \/ log_failure
    \/ delete_alert
    \/ log_metric

ConcSpec == InitConc /\ [][NextConc]_vars

\* the rows of the batch for which the run has not called a handler
Unhandled ==
    { batch[a] : a \in { b \in DOMAIN batch :
                           \A n \in DOMAIN trace :
                              trace[n].op = "handle_alert" => trace[n].i # b } }

\* the process is terminated from outside, wherever main() is
terminate ==
    /\ pc \in { "main", "found", "loop", "log_failure", "delete", "metrics" }
    /\ pc' = "killed"
    /\ left' = left \cup Unhandled
    /\ Fault(TRUE)
    /\ UNCHANGED << table, run, CLOUDWATCH_METRICS, JIRA_USER, batch, i, j, r, raised,
                    nextId, clock, trace, inserted, removed, recorded, other >>

NextKill ==
    \/ Entry
    \/ terminate
    \/ get_new_alerts
    \/ log_info
    \/ handle_alert
    \/ skip_handler
    \/ log_failure
    \/ delete_alert
    \/ log_metric

KillSpec == Init /\ [][NextKill]_vars

\* --------------------------------------------------------------- claims
\* how many calls of kind op the run has made for handler hj of alert ai
Count(op, ai, hj) ==
    Cardinality({ n \in DOMAIN trace :
                    trace[n].op = op /\ trace[n].i = ai /\ trace[n].j = hj })

\* the loop has dealt with handler hj of alert ai: the cursor is past it, or on
\* it with handle_alert already called
Passed(ai, hj) ==
    \/ pc \in { "metrics", "done" }
    \/ /\ pc \in { "loop", "log_failure", "delete", "crashed" }
       /\ \/ ai < i
          \/ ai = i /\ hj < j
          \/ ai = i /\ hj = j /\ pc # "loop"

\* the rows of this run's batch
Fetched == { batch[n] : n \in DOMAIN batch }

\* C1: every alert row that a DELETE of log_failure has removed has a failure
\* record in the table whose OBJECT is its ALERT_ID: the failure record is
\* stored before the row goes, and a failed INSERT keeps the row
C1_NoSilentLoss ==
    \A id \in removed : \E x \in table : x.ALERT.OBJECT = Some(id)

\* C2: when the handler has failed once for a fetched alert A and the INSERT
\* and the DELETE of log_failure both succeeded, the table holds exactly one
\* row added by this run whose OBJECT is A's ALERT_ID, with SEVERITY 'High'
\* and the handler's error in its DESCRIPTION, and no row with A's ALERT_ID;
\* and once the run is over a fetch does not return A
C2_FailureRecorded ==
    \A a \in DOMAIN batch :
        LET id    == batch[a].ALERT.ALERT_ID
            fails == { n \in DOMAIN trace : /\ trace[n].op = "handle_alert"
                                            /\ trace[n].i = a
                                            /\ trace[n].res # None }
            done  == { n \in fails : /\ \E m \in DOMAIN trace :
                                           /\ trace[m].op = "insert" /\ trace[m].ok
                                           /\ trace[m].i = a /\ trace[m].j = trace[n].j
                                     /\ \E m \in DOMAIN trace :
                                           /\ trace[m].op = "delete" /\ trace[m].ok
                                           /\ trace[m].i = a /\ trace[m].j = trace[n].j }
            new   == { x \in table \cap inserted : x.ALERT.OBJECT = id }
        IN  Cardinality(fails) = 1 /\ done = fails =>
              /\ Cardinality(new) = 1
              /\ \A x \in new : \A n \in fails :
                    /\ x.ALERT.SEVERITY = Some("High")
                    /\ x.ALERT.DESCRIPTION # None
                    /\ x.ALERT.DESCRIPTION[1].error = trace[n].res[1]
                    /\ x.ALERT.DESCRIPTION[1].id = id[1]
              /\ \A x \in table : x.ALERT.ALERT_ID # id
              /\ pc = "done" =>
                    \A s \in GET_ALERTS_QUERY(table) : \A n \in DOMAIN s : s[n] # batch[a]

\* C2's case: a run is over in which the handler failed once for an alert and
\* both statements of log_failure succeeded
C2_Witness ==
    /\ pc = "done"
    /\ \E a \in DOMAIN batch :
          /\ Count("handle_alert", a, 1) = 1
          /\ Len(Handlers(batch[a])) = 1
          /\ \E n \in DOMAIN trace : trace[n].op = "insert" /\ trace[n].i = a /\ trace[n].ok
          /\ \E n \in DOMAIN trace : trace[n].op = "delete" /\ trace[n].i = a /\ trace[n].ok

\* the handler names requested for a fetched alert, and how often the handler
\* named name has been called for alert ai
Calls(ai, name) ==
    Cardinality({ n \in DOMAIN trace : /\ trace[n].op = "handle_alert"
                                       /\ trace[n].i = ai
                                       /\ Handlers(batch[ai])[trace[n].j] = name })

\* C3 as stated: once the loops of a run are over, every handler name requested
\* for a fetched alert has been invoked exactly once for that alert
C3_EachRequestedOnce ==
    pc \in { "metrics", "done" } =>
        \A a \in DOMAIN batch :
            \A h \in DOMAIN Handlers(batch[a]) :
                Calls(a, Handlers(batch[a])[h]) = 1

\* C3 as amended: every entry 'jira' of a fetched alert's handler list has been
\* invoked exactly once as soon as the loop has dealt with it and not before (a
\* list naming 'jira' twice gets two calls), and an entry of any other name is
\* never invoked
C3_JiraEntriesOnce ==
    \A a \in DOMAIN batch :
        \A h \in DOMAIN Handlers(batch[a]) :
            Count("handle_alert", a, h) =
                IF Handlers(batch[a])[h] = "jira" /\ Passed(a, h) THEN 1 ELSE 0

\* C3's case: the loops are over for a batch with an alert that names 'jira'
\* twice and an alert that names another handler
C3_Witness ==
    /\ pc = "done"
    /\ \E a \in DOMAIN batch : Calls(a, "jira") = 2
    /\ \E a \in DOMAIN batch : \E h \in DOMAIN Handlers(batch[a]) :
          Handlers(batch[a])[h] = "email"

\* C4: what a fetch returns is exactly the rows with ticket NULL and suppressed
\* FALSE, oldest event_time first, cut to the 100 oldest: no other row is in
\* it, none is in it twice, and a pending row left out is no older than any
\* row returned
C4_FetchPending ==
    pc = "found" =>
        LET pending == { x \in table : x.ticket = None /\ x.suppressed = Some(FALSE) }
        IN  /\ Fetched \subseteq pending
            /\ \A m, n \in DOMAIN batch : m < n =>
                  /\ batch[m] # batch[n]
                  /\ batch[m].event_time[1] <= batch[n].event_time[1]
            /\ Len(batch) = IF Cardinality(pending) < 100 THEN Cardinality(pending) ELSE 100
            /\ \A x \in pending \ Fetched : \A n \in DOMAIN batch :
                  batch[n].event_time[1] <= x.event_time[1]

\* C4's case: more than 100 rows are pending and the fetch has cut them
C4_Witness ==
    /\ pc = "found"
    /\ Len(batch) = 100
    /\ Cardinality(Pending(table)) > 100
    /\ \E x \in table : x.suppressed = None
    /\ \E x \in table : x.ticket # None

\* C5 as stated: every call of log_failure returns to the loop, whatever the
\* alert body and whatever the store does (ok is FALSE for a call that raised)
C5_LogFailureReturns ==
    \A n \in DOMAIN trace : trace[n].op = "log_failure" => trace[n].ok

\* C6 as stated: no error but a store error of the fetch ends a run, so a run
\* that has fetched its batch reaches the end of its loops
C6_OnlyFetchEndsRun ==
    pc = "crashed" => raised = Some("store error") /\ batch = <<>>

\* C7 as stated: a handler call that returned an error has caused one call of
\* log_failure with that alert and error, a failure record for the alert is
\* stored, and nothing has been raised out of the loop; a handler call that
\* returned None has caused no call of log_failure
C7_FailureAlwaysRecorded ==
    \A n \in DOMAIN trace :
        trace[n].op = "handle_alert" /\ ~(pc = "log_failure" /\ i = trace[n].i /\ j = trace[n].j) =>
            IF trace[n].res = None
              THEN Count("log_failure", trace[n].i, trace[n].j) = 0
              ELSE /\ Count("log_failure", trace[n].i, trace[n].j) = 1
                   /\ \E m \in DOMAIN trace : /\ trace[m].op = "log_failure"
                                              /\ trace[m].i = trace[n].i
                                              /\ trace[m].res = trace[n].res
                   /\ \E x \in table \cap inserted :
                         x.ALERT.OBJECT = batch[trace[n].i].ALERT.ALERT_ID
                   /\ raised = None

\* C8 as stated: once the loops are over, an alert whose HANDLERS field is
\* absent or an empty list has had the built-in handler invoked exactly once
C8_DefaultWhenAbsentOrEmpty ==
    pc \in { "metrics", "done" } =>
        \A a \in DOMAIN batch :
            batch[a].ALERT.HANDLERS \in { None, Some(<<>>) } =>
                Cardinality({ n \in DOMAIN trace :
                                trace[n].op = "handle_alert" /\ trace[n].i = a }) = 1

\* C8 as amended: an alert whose HANDLERS field is absent has had the built-in
\* handler invoked exactly once as soon as the loop has dealt with it, and an
\* alert whose HANDLERS is an empty list has no handler invoked at all
C8_DefaultWhenAbsent ==
    \A a \in DOMAIN batch :
        LET calls == { n \in DOMAIN trace : trace[n].op = "handle_alert" /\ trace[n].i = a }
        IN  /\ batch[a].ALERT.HANDLERS = None =>
                Cardinality(calls) = IF Passed(a, 1) THEN 1 ELSE 0
            /\ batch[a].ALERT.HANDLERS = Some(<<>>) => calls = {}

\* C8's case: the loops are over for a batch with an alert without HANDLERS,
\* handled once, and an alert whose HANDLERS is empty
C8_Witness ==
    /\ pc = "done"
    /\ \E a \in DOMAIN batch :
          batch[a].ALERT.HANDLERS = None /\ Count("handle_alert", a, 1) = 1
    /\ \E a \in DOMAIN batch : batch[a].ALERT.HANDLERS = Some(<<>>)

\* the loop cursor that follows (ai, hj): the next handler of the same alert,
\* else the first handler of the next alert that has one
Follows(ai, hj, ni, nj) ==
    \/ ni = ai /\ nj = hj + 1 /\ nj <= Len(Handlers(batch[ai]))
    \/ /\ hj = Len(Handlers(batch[ai]))
       /\ ni > ai /\ ni <= Len(batch) + 1 /\ nj = 1
       /\ \A k \in (ai + 1)..(ni - 1) : Handlers(batch[k]) = <<>>
       /\ ni <= Len(batch) => Handlers(batch[ni]) # <<>>

\* C9: the step of the loop for a handler name other than 'jira' calls no
\* handler and no store statement, inserts and deletes no row, raises nothing,
\* and leaves the loop at the alert's next handler or the next alert
C9_UnknownHandlerNoOp ==
    [][ pc = "loop" /\ Handlers(batch[i])[j] # "jira" =>
          /\ trace' = trace
          /\ table' = table
          /\ inserted' = inserted
          /\ removed' = removed
          /\ raised' = None
          /\ batch' = batch
          /\ Follows(i, j, i', j')
          /\ pc' = IF i' > Len(batch) THEN "metrics" ELSE "loop" ]_vars

\* C9's case: the loop has passed a handler name that is not registered and
\* has then called the handler the same alert names after it
C9_Witness ==
    /\ pc \in { "loop", "metrics" }
    /\ \E a \in DOMAIN batch :
          /\ Handlers(batch[a]) = <<"email", "jira">>
          /\ Count("handle_alert", a, 1) = 0
          /\ Count("handle_alert", a, 2) = 1

\* C10 as stated: a run that fetched no alert ends without an INSERT or a
\* DELETE and with exactly one attempt to emit the metric
C10_EmptyRunEmitsOnce ==
    pc = "done" /\ batch = <<>> =>
        /\ \A n \in DOMAIN trace : trace[n].op \notin { "insert", "delete" }
        /\ Cardinality({ n \in DOMAIN trace : trace[n].op = "metric" }) = 1

\* C10 as amended: a run that fetched no alert ends without error, without an
\* INSERT or a DELETE and with the table as it was, and has attempted to emit
\* the metric exactly once if CLOUDWATCH_METRICS is set to a non-empty value
\* and not at all otherwise
C10_EmptyRunEmitsIfEnabled ==
    batch = <<>> /\ pc \in { "found", "metrics", "done" } =>
        /\ raised = None
        /\ inserted = {}
        /\ \A n \in DOMAIN trace : trace[n].op \in { "metric", "log.error" }
        /\ \A n \in DOMAIN trace : trace[n].op = "log.error" => n > 1 /\ ~trace[n - 1].ok
        /\ Cardinality({ n \in DOMAIN trace : trace[n].op = "metric" }) =
              IF pc = "done" /\ CLOUDWATCH_METRICS \notin { None, Some("") } THEN 1 ELSE 0

\* C10's case: a run over an empty batch is done, with the metric enabled
C10_Witness ==
    /\ pc = "done"
    /\ batch = <<>>
    /\ Pending(table) = {}
    /\ table # {}
    /\ CLOUDWATCH_METRICS # None
    /\ \E n \in DOMAIN trace : trace[n].op = "metric" /\ ~trace[n].ok

\* the calls of kind op the run has made
Ops(op) == { n \in DOMAIN trace : trace[n].op = op }

\* C11: a run attempts to emit the metric at most once, only with
\* CLOUDWATCH_METRICS set to a non-empty value, and only as its last call,
\* after the handler was called for every 'jira' entry of every fetched alert;
\* a run that reaches its end with the flag set has attempted it; and when
\* the emission raised, the error is logged, nothing is raised out of main()
\* and the run is done as it is when the emission succeeds
C11_MetricOnceAtEnd ==
    /\ Cardinality(Ops("metric")) <= 1
    /\ pc = "done" /\ CLOUDWATCH_METRICS \notin { None, Some("") } => Ops("metric") # {}
    /\ \A n \in Ops("metric") :
          /\ CLOUDWATCH_METRICS \notin { None, Some("") }
          /\ pc = "done"
          /\ raised = None
          /\ \A a \in DOMAIN batch : \A h \in DOMAIN Handlers(batch[a]) :
                Handlers(batch[a])[h] = "jira" =>
                   \E m \in 1..(n - 1) : /\ trace[m].op = "handle_alert"
                                         /\ trace[m].i = a /\ trace[m].j = h
          /\ IF trace[n].ok
               THEN n = Len(trace)
               ELSE n + 1 = Len(trace) /\ trace[n + 1].op = "log.error"

\* C11's case: a run that called the handler has ended with an emission that
\* raised
C11_Witness ==
    /\ pc = "done"
    /\ Ops("handle_alert") # {}
    /\ \E n \in Ops("metric") : ~trace[n].ok

\* C12: a process started with JIRA_USER absent (or empty) does nothing: it
\* is at its exit without a fetch, a handler call, an INSERT, a DELETE or a
\* metric emission; and a process that is anywhere in main() has JIRA_USER set
C12_NoCredentialNoRun ==
    /\ pc # "idle" /\ JIRA_USER \in { None, Some("") } =>
          /\ pc = "exit"
          /\ trace = <<>>
          /\ batch = <<>>
          /\ inserted = {}
          /\ raised = None
    /\ pc \notin { "idle", "exit" } => JIRA_USER \notin { None, Some("") }

\* C12's case: a process started without JIRA_USER has exited, with pending
\* alerts in the table and the metric enabled
C12_Witness ==
    /\ pc = "exit"
    /\ JIRA_USER = None
    /\ Pending(table) # {}
    /\ CLOUDWATCH_METRICS = Some("true")

\* the stored failure records that refer to alert id
RecordsOf(t, id) ==
    { x \in t : x.ALERT.TITLE = Some("Alert Handler Failure") /\ x.ALERT.OBJECT = Some(id) }

\* C13: (1) a fetched alert whose failure record was inserted and whose DELETE
\* raised (and was not deleted by a later DELETE of the run) is still in the
\* table, its row as fetched and pending; (2) an alert that has a failure
\* record and is still pending is in the batch of every later fetch, and a run
\* that gets through its loops has called the handler for each of its 'jira'
\* entries again; (3) every INSERT of a run that succeeded for an alert has
\* added one more failure record for its ALERT_ID; (4) an ALERT_ID a failure
\* record was once stored for has a failure record in the table ever after
C13_DeleteFailureReprocessed ==
    /\ \A a \in DOMAIN batch :
          ( /\ \E n \in Ops("insert") : trace[n].i = a /\ trace[n].ok
            /\ \E n \in Ops("delete") : trace[n].i = a /\ ~trace[n].ok
            /\ \A n \in Ops("delete") : trace[n].i = a => ~trace[n].ok )
          => batch[a] \in Pending(table)
    /\ \/ pc \in { "found", "loop", "log_failure", "delete", "metrics", "done" }
       \/ pc = "crashed" /\ raised = Some("KeyError")
       => \A x \in Pending(table) :
             x.ALERT.ALERT_ID # None /\ x.ALERT.ALERT_ID[1] \in recorded =>
                \E a \in DOMAIN batch :
                   /\ batch[a] = x
                   /\ pc \in { "metrics", "done" } =>
                         \A h \in DOMAIN Handlers(x) :
                            Handlers(x)[h] = "jira" => Count("handle_alert", a, h) = 1
    /\ inserted \subseteq table
    /\ \A a \in DOMAIN batch :
          batch[a].ALERT.ALERT_ID # None =>
             Cardinality(RecordsOf(inserted, batch[a].ALERT.ALERT_ID[1])) =
                Cardinality({ n \in Ops("insert") : trace[n].i = a /\ trace[n].ok })
    /\ \A id \in recorded : RecordsOf(table, id) # {}

\* C13's case: an alert whose DELETE raised in an earlier run was fetched
\* again, its handler failed again, and the table holds two failure records
\* for it, one of them from this run
C13_Witness ==
    \E a \in DOMAIN batch :
        /\ batch[a].ALERT.ALERT_ID # None
        /\ \E n \in Ops("insert") : trace[n].i = a /\ trace[n].ok
        /\ Cardinality(RecordsOf(table, batch[a].ALERT.ALERT_ID[1])) = 2
        /\ Cardinality(RecordsOf(inserted, batch[a].ALERT.ALERT_ID[1])) = 1

\* the newest alert of the largest table, which has no HANDLERS
Newest == Detected(Some(LIMIT + MaxExtra), None, 1 + LIMIT + MaxExtra, None, Some(FALSE))

\* C14 as stated, for the newest alert of the largest table: when runs
\* complete again and again and the alert stays pending, some run fetches it
C14_NoStarvation ==
    ([]<>(pc = "done") /\ [](Newest \in Pending(table))) => <>(Newest \in Fetched)

\* C14 as amended: the batch is in ascending event_time and the handler calls
\* of a run come in batch order, so the oldest fetched alert is handled first;
\* a fetch returns a pending alert if fewer than LIMIT other pending alerts are
\* as old or older, and only if fewer than LIMIT are strictly older, so an
\* alert with LIMIT older alerts that stay pending is not fetched
C14_OldestFirstWithinPage ==
    /\ \A a \in DOMAIN batch : a < Len(batch) => Before(batch[a], batch[a + 1])
    /\ \A n, m \in Ops("handle_alert") :
          n < m => \/ trace[n].i < trace[m].i
                   \/ trace[n].i = trace[m].i /\ trace[n].j < trace[m].j
    /\ pc = "found" =>
          \A x \in Pending(table) :
             LET others == Pending(table) \ { x }
             IN  /\ Cardinality({ y \in others : Before(y, x) }) < LIMIT => x \in Fetched
                 /\ x \in Fetched =>
                       Cardinality({ y \in others : ~Before(x, y) }) < LIMIT

\* C14's case: after the last counted run the table still has a pending alert
\* without HANDLERS that no fetch returned, behind LIMIT older alerts that
\* were fetched and are all still pending
C14_Witness ==
    /\ pc = "done"
    /\ run = MaxRuns
    /\ Len(batch) = LIMIT
    /\ \A a \in DOMAIN batch : batch[a] \in Pending(table)
    /\ \E x \in Pending(table) \ Fetched : x.ALERT.HANDLERS = None

\* C15: a step changes the table only in log_failure, after a handler call
\* that returned an error: its INSERT adds one row, a failure record whose
\* ALERT_ID no row of the table has, and its DELETE takes away rows with the
\* failed alert's ALERT_ID; every other row stays, with every field as it was.
\* The fetch and the metric change nothing, and a loop step for an unknown
\* handler or a handler call that succeeded makes no INSERT and no DELETE
C15_InsertOrDeleteOnly ==
    [][ /\ pc \notin { "log_failure", "delete" } => table' = table
        /\ pc = "loop" /\ r' = None =>
              /\ pc' \in { "loop", "metrics" }
              /\ \A n \in DOMAIN trace' : n > Len(trace) => trace'[n].op = "handle_alert"
        /\ pc = "log_failure" =>
              /\ r # None
              /\ table \subseteq table'
              /\ Cardinality(table' \ table) <= 1
              /\ \A x \in table' \ table :
                    /\ x.ALERT.TITLE = Some("Alert Handler Failure")
                    /\ x.ALERT.OBJECT = batch[i].ALERT.ALERT_ID
                    /\ \A y \in table : y.ALERT.ALERT_ID # x.ALERT.ALERT_ID
        /\ pc = "delete" =>
              /\ r # None
              /\ \E n \in Ops("handle_alert") : trace[n].i = i /\ trace[n].res # None
              /\ table' \subseteq table
              /\ \A x \in table \ table' : x.ALERT.ALERT_ID = batch[i].ALERT.ALERT_ID
      ]_vars

\* C15's case: a run is done that stored a failure record and deleted the
\* failed alert's row, and an alert whose handler call succeeded is in the
\* table as it was fetched
C15_Witness ==
    /\ pc = "done"
    /\ inserted # {}
    /\ \E a \in DOMAIN batch : batch[a] \notin table
    /\ \E a \in DOMAIN batch :
          /\ batch[a] \in table
          /\ \E n \in Ops("handle_alert") : trace[n].i = a /\ trace[n].ok

\* the failure records of table t
FailureRecords(t) == { x \in t : x.ALERT.TITLE = Some("Alert Handler Failure") }

\* C16 as stated: a stored failure record is a pending alert, one that a fetch
\* may return
C16_FailureAlertPending ==
    \A x \in FailureRecords(table) : x \in Pending(table)

\* C16 as amended: a stored failure record has ticket NULL and suppressed
\* NULL (the INSERT sets only alert_time and alert), so it is not pending, no
\* fetch of any run returns it and no handler is called for it
C16_FailureAlertNotVisible ==
    \A x \in FailureRecords(table) :
        /\ x.ticket = None
        /\ x.suppressed = None
        /\ x.event_time = None
        /\ x \notin Pending(table)
        /\ \A a \in DOMAIN batch :
              batch[a] # x /\ batch[a].ALERT.ALERT_ID # x.ALERT.ALERT_ID

\* C16's case: a run that fetched alerts is done, with a failure record in the
\* table that an earlier run stored
C16_Witness ==
    /\ pc = "done"
    /\ batch # <<>>
    /\ FailureRecords(table) \ inserted # {}

\* the handler calls that trace tr has for handler hj of alert ai
CallsIn(tr, ai, hj) ==
    Cardinality({ n \in DOMAIN tr :
                    tr[n].op = "handle_alert" /\ tr[n].i = ai /\ tr[n].j = hj })

C18_UnhandledRetried ==
    [][ /\ pc' = "killed" =>
              /\ \A a \in DOMAIN batch' :
                    (\A n \in DOMAIN trace' :
                        trace'[n].op = "handle_alert" => trace'[n].i # a)
                    => batch'[a] \in left'
              /\ left' \subseteq Pending(table')
        /\ pc = "main" /\ pc' = "found" =>
              \A x \in left : \E a \in DOMAIN batch' : batch'[a] = x
      ]_vars

\* C18's case: a run was terminated in its loop after a handler call, with
\* fetched alerts it had not reached
C18_Witness ==
    /\ pc = "killed"
    /\ Ops("handle_alert") # {}
    /\ i < Len(batch)
    /\ left # {}

\* the handler entries of batch b from handler hj of alert ai on
Work(b, ai, hj) ==
    Cardinality({ p \in UNION { { <<a, h>> : h \in DOMAIN Handlers(b[a]) } : a \in ai..Len(b) } :
                    p[1] > ai \/ p[2] >= hj })

\* a bound on the steps the run has still to take once it has its batch
StepsLeft ==
    CASE pc = "found" -> 3 * Work(batch, 1, 1) + 2
      [] pc = "loop" -> 3 * Work(batch, i, j) + 1
      [] pc = "log_failure" -> 3 * Work(batch, i, j)
      [] pc = "delete" -> 3 * Work(batch, i, j) - 1
      [] pc = "metrics" -> 1
      [] OTHER -> 0

\* C19: the fetch is one step, made before the loops; every later step of a
\* run keeps the batch and brings StepsLeft down, which is never negative, so
\* the run ends after at most 3 steps for each handler entry of its batch
\* and 3 more. The handler is called only for alerts of the batch, at most
\* once for each of their entries whatever it returns, and no failure record
\* the run inserted is in its batch
C19_TerminatesOnItsBatch ==
    [][ /\ pc = "main" => pc' \in { "found", "crashed" }
        /\ pc \in { "found", "loop", "log_failure", "delete", "metrics" } =>
              /\ batch' = batch
              /\ StepsLeft' < StepsLeft
              /\ StepsLeft' >= 0
        /\ inserted' \cap { batch'[a] : a \in DOMAIN batch' } = {}
        /\ \A n \in DOMAIN trace' :
              trace'[n].op = "handle_alert" => trace'[n].i \in DOMAIN batch'
        /\ Cardinality({ n \in DOMAIN trace' : trace'[n].op = "handle_alert" })
              <= Work(batch', 1, 1)
      ]_vars

\* C19's case: a run is done in which the handler failed for two alerts and a
\* failure record was stored
C19_Witness ==
    /\ pc = "done"
    /\ inserted # {}
    /\ \E n, m \in Ops("handle_alert") :
          trace[n].i # trace[m].i /\ trace[n].res # None /\ trace[m].res # None

\* C20: the DELETE of log_failure takes away only rows whose ALERT_ID is the
\* failed alert's: every row with another ALERT_ID is in the table after it,
\* among them every failure record the run has inserted, whose ALERT_ID is
\* not the failed alert's; and when the DELETE succeeded no row with the
\* failed alert's ALERT_ID is left
C20_DeleteOnlyFailedAlert ==
    [][ pc = "delete" =>
          LET id == batch[i].ALERT.ALERT_ID
          IN  /\ table' \subseteq table
              /\ \A x \in table : x.ALERT.ALERT_ID # id => x \in table'
              /\ \A x \in inserted : x.ALERT.ALERT_ID # id
              /\ inserted \cap table \subseteq table'
              /\ trace'[Len(trace) + 1].op = "delete"
              /\ trace'[Len(trace) + 1].ok => \A x \in table' : x.ALERT.ALERT_ID # id
      ]_vars

\* C20's case: a DELETE of the run succeeded and the failed alert's row is
\* gone, the failure record inserted before it is in the table, and so is a
\* pending alert with another ALERT_ID
C20_Witness ==
    \E n \in Ops("delete") :
        /\ trace[n].ok
        /\ batch[trace[n].i] \notin table
        /\ RecordsOf(inserted \cap table, batch[trace[n].i].ALERT.ALERT_ID[1]) # {}
        /\ \E x \in Pending(table) : x.ALERT.ALERT_ID # batch[trace[n].i].ALERT.ALERT_ID

====
